---------------------------- MODULE Spec2Model ----------------------------
(***************************************************************************)
(* voronoi_finite_polygons_2d (src/voronoi.py, lines 9-93): reconstruction *)
(* of the unbounded regions of a 2D Voronoi diagram as finite polygons.    *)
(*                                                                         *)
(* Numbers.  The code computes in float64.  The model computes in fixed    *)
(* point: a coordinate x is held as the integer x * Scale.  Scale is the   *)
(* least common multiple of every divisor that occurs on the diagrams of   *)
(* the catalogue below (the number of points, 2 for a midpoint, the        *)
(* length of every hull edge), so that the mean of the points, the         *)
(* midpoint of a ridge, the unit tangent and the far point are exact.      *)
(* Only the mean of a region's vertices (line 86) may round, as it does in *)
(* float64.  Division truncates towards zero, so that it commutes with     *)
(* negation as float64 division does.                                      *)
(*                                                                         *)
(* Indices.  Python indices are kept as they are (0-based, -1 the          *)
(* "point at infinity"); TLA+ sequences are 1-based, so every index goes   *)
(* through PyAt, which also wraps a negative index as Python does.         *)
(***************************************************************************)
EXTENDS Integers, Sequences, FiniteSets, TLC

VARIABLES vor, radius_arg, pc, fault, new_regions, new_vertices, center,
          radius, all_ridges, ridge_i, p1, new_region, ridge_k

vars == <<vor, radius_arg, pc, fault, new_regions, new_vertices, center,
          radius, all_ridges, ridge_i, p1, new_region, ridge_k>>

-----------------------------------------------------------------------------
(* Bounds of the input space *)

\* translations of a diagram: each axis is shifted by 5 * k, k \in 0..MaxShift
MaxShift == 1

\* explicit radius arguments: k half units, k \in 1..MaxRadius
MaxRadius == 3

\* fixed-point scale: lcm(2, 4, 5, 9) = 180
Scale == 2 * 2 * 3 * 3 * 5

-----------------------------------------------------------------------------
(* Python and numpy primitives *)

Abs(a) == IF a < 0 THEN -a ELSE a

\* float division a / b (b > 0), truncated towards zero
Div(a, b) == IF a >= 0 THEN a \div b ELSE -((-a) \div b)

\* the product of two fixed-point numbers
Mul(a, b) == Div(a * b, Scale)

\* seq[i] with Python's index rules: 0-based, a negative index counts from the end
PyIndexOK(seq, i) == -Len(seq) <= i /\ i < Len(seq)

PyAt(seq, i) == IF i >= 0 THEN seq[i + 1] ELSE seq[Len(seq) + i + 1]

RECURSIVE SumAxis(_, _)
SumAxis(pts, axis) ==
    IF pts = <<>> THEN 0 ELSE pts[1][axis] + SumAxis(Tail(pts), axis)

\* ndarray.mean(axis=0) of an n x 2 array
MeanAxis0(pts) ==
    <<Div(SumAxis(pts, 1), Len(pts)), Div(SumAxis(pts, 2), Len(pts))>>

SetMax(S) == CHOOSE m \in S : \A x \in S : x <= m

SetMin(S) == CHOOSE m \in S : \A x \in S : m <= x

\* ndarray.ptp() without an axis: the range of the flattened array
Ptp(pts) ==
    LET flat == {pts[j][a] : j \in 1..Len(pts), a \in 1..2}
    IN  SetMax(flat) - SetMin(flat)

\* a0 - b0, a0 + b0 on 2-vectors
VSub(a, b) == <<a[1] - b[1], a[2] - b[2]>>

VAdd(a, b) == <<a[1] + b[1], a[2] + b[2]>>

\* np.dot of two 2-vectors; the value is in units of 1 / Scale^2 (only its
\* sign is used, so it is not rescaled and never rounds to zero)
Dot(a, b) == a[1] * b[1] + a[2] * b[2]

\* np.sign
Sign(a) == IF a > 0 THEN 1 ELSE IF a < 0 THEN -1 ELSE 0

RECURSIVE SqrtSearch(_, _, _)
SqrtSearch(n, lo, hi) ==
    IF lo >= hi THEN lo
    ELSE LET mid == (lo + hi + 1) \div 2
         IN  IF mid * mid <= n THEN SqrtSearch(n, mid, hi)
             ELSE SqrtSearch(n, lo, mid - 1)

\* np.linalg.norm of a 2-vector
Norm(t) == SqrtSearch(t[1] * t[1] + t[2] * t[2], 0, Abs(t[1]) + Abs(t[2]))

\* the quadrant class of np.arctan2(y, x): 0 for an angle in (-pi, 0), 1 for
\* the angle 0 (and arctan2(0, 0) = 0), 2 for (0, pi), 3 for the angle pi
Half(d) ==
    IF d[2] < 0 THEN 0
    ELSE IF d[2] = 0 /\ d[1] >= 0 THEN 1
    ELSE IF d[2] > 0 THEN 2
    ELSE 3

Cross(a, b) == a[1] * b[2] - a[2] * b[1]

\* arctan2(a.y, a.x) < arctan2(b.y, b.x)
AngleLess(a, b) ==
    \/ Half(a) < Half(b)
    \/ Half(a) = Half(b) /\ Half(a) \in {0, 2} /\ Cross(a, b) > 0

\* faulty variant of ArgSort: descending order of angle
ArgSortDescending(angles) ==
    LET n == Len(angles)
        Rank(j) == Cardinality({m \in 1..n :
                       \/ AngleLess(angles[j], angles[m])
                       \/ ~AngleLess(angles[m], angles[j]) /\ m < j})
    IN  [r \in 1..n |-> (CHOOSE j \in 1..n : Rank(j) = r - 1) - 1]

\* np.argsort(angles): the 0-based positions in ascending order of angle.
\* A region has fewer than 16 vertices, where numpy's sort is an insertion
\* sort: equal angles keep their order.
ArgSort(angles) ==
    LET n == Len(angles)
        Rank(j) == Cardinality({m \in 1..n :
                       \/ AngleLess(angles[m], angles[j])
                       \/ ~AngleLess(angles[j], angles[m]) /\ m < j})
    IN  [r \in 1..n |-> (CHOOSE j \in 1..n : Rank(j) = r - 1) - 1]

\* dict.setdefault(key, []).append(val)
SetDefaultAppend(map, key, val) ==
    IF key \in DOMAIN map THEN [map EXCEPT ![key] = Append(@, val)]
    ELSE map @@ (key :> <<val>>)

\* the optional radius argument: None, or a number
None == <<>>

-----------------------------------------------------------------------------
(* Diagrams: what scipy.spatial.Voronoi returns, in grid units *)

\* the 3 x 3 grid of the scipy.spatial.Voronoi documentation, doubled; the
\* region of the middle point, [0, 1, 3, 2], is finite and runs clockwise
Grid3 ==
    [dim |-> 2,
     points |-> << <<0, 0>>, <<0, 2>>, <<0, 4>>, <<2, 0>>, <<2, 2>>, <<2, 4>>,
                   <<4, 0>>, <<4, 2>>, <<4, 4>> >>,
     vertices |-> << <<1, 1>>, <<1, 3>>, <<3, 1>>, <<3, 3>> >>,
     regions |-> << <<>>, <<-1, 0>>, <<-1, 1>>, <<1, -1, 0>>, <<3, -1, 2>>,
                    <<-1, 3>>, <<-1, 2>>, <<0, 1, 3, 2>>, <<2, -1, 0>>,
                    <<3, -1, 1>> >>,
     point_region |-> <<1, 3, 2, 8, 7, 9, 6, 4, 5>>,
     ridge_points |-> << <<0, 3>>, <<0, 1>>, <<2, 5>>, <<2, 1>>, <<1, 4>>,
                         <<7, 8>>, <<7, 6>>, <<7, 4>>, <<8, 5>>, <<6, 3>>,
                         <<4, 5>>, <<4, 3>> >>,
     ridge_vertices |-> << <<-1, 0>>, <<-1, 0>>, <<-1, 1>>, <<-1, 1>>, <<0, 1>>,
                           <<-1, 3>>, <<-1, 2>>, <<2, 3>>, <<-1, 3>>, <<-1, 2>>,
                           <<1, 3>>, <<0, 2>> >>]

\* a right triangle with sides 8, 6, 10; one Voronoi vertex, the circumcentre
Triangle ==
    [dim |-> 2,
     points |-> << <<0, 0>>, <<8, 0>>, <<0, 6>> >>,
     vertices |-> << <<4, 3>> >>,
     regions |-> << <<>>, <<0, -1>>, <<-1, 0>>, <<0, -1>> >>,
     point_region |-> <<1, 2, 3>>,
     ridge_points |-> << <<0, 1>>, <<0, 2>>, <<1, 2>> >>,
     ridge_vertices |-> << <<-1, 0>>, <<-1, 0>>, <<-1, 0>> >>]

\* the four corners of a square; one Voronoi vertex, the centre
Square ==
    [dim |-> 2,
     points |-> << <<0, 0>>, <<2, 0>>, <<0, 2>>, <<2, 2>> >>,
     vertices |-> << <<1, 1>> >>,
     regions |-> << <<-1, 0>>, <<0, -1>>, <<>>, <<-1, 0>>, <<0, -1>> >>,
     point_region |-> <<0, 1, 3, 4>>,
     ridge_points |-> << <<0, 1>>, <<0, 2>>, <<1, 3>>, <<2, 3>> >>,
     ridge_vertices |-> << <<-1, 0>>, <<-1, 0>>, <<-1, 0>>, <<-1, 0>> >>]

\* the corners of a square and its centre, whose region [0, 1, 2, 3] is
\* finite and runs counterclockwise
Centred ==
    [dim |-> 2,
     points |-> << <<0, 0>>, <<4, 0>>, <<4, 4>>, <<0, 4>>, <<2, 2>> >>,
     vertices |-> << <<2, 0>>, <<4, 2>>, <<2, 4>>, <<0, 2>> >>,
     regions |-> << <<3, -1, 0>>, <<0, -1, 1>>, <<1, -1, 2>>, <<2, -1, 3>>,
                    <<>>, <<0, 1, 2, 3>> >>,
     point_region |-> <<0, 1, 2, 3, 5>>,
     ridge_points |-> << <<0, 1>>, <<1, 2>>, <<2, 3>>, <<3, 0>>, <<0, 4>>,
                         <<1, 4>>, <<2, 4>>, <<3, 4>> >>,
     ridge_vertices |-> << <<-1, 0>>, <<-1, 1>>, <<-1, 2>>, <<-1, 3>>, <<3, 0>>,
                           <<0, 1>>, <<1, 2>>, <<2, 3>> >>]

\* a single point: no Voronoi vertex, no ridge, an empty region
SinglePoint ==
    [dim |-> 2,
     points |-> << <<3, 1>> >>,
     vertices |-> <<>>,
     regions |-> << <<>> >>,
     point_region |-> <<0>>,
     ridge_points |-> <<>>,
     ridge_vertices |-> <<>>]

\* points in space: vor.points.shape[1] = 3
Spatial ==
    [dim |-> 3,
     points |-> << <<0, 0, 0>>, <<2, 0, 0>>, <<0, 2, 0>>, <<0, 0, 2>> >>,
     vertices |-> << <<1, 1, 1>> >>,
     regions |-> << <<>>, <<-1, 0>>, <<-1, 0>>, <<-1, 0>>, <<-1, 0>> >>,
     point_region |-> <<1, 2, 3, 4>>,
     ridge_points |-> << <<0, 1>>, <<0, 2>>, <<0, 3>>, <<1, 2>>, <<1, 3>>,
                         <<2, 3>> >>,
     ridge_vertices |-> << <<-1, 0>>, <<-1, 0>>, <<-1, 0>>, <<-1, 0>>,
                           <<-1, 0>>, <<-1, 0>> >>]

\* where a ridge stores its vertex at infinity: in the first slot (as Qhull
\* writes it), in the second, or in the second for every other ridge
SlotModes == {"first", "second", "mixed"}

Reslot(rv, j, mode) ==
    IF mode = "second" \/ (mode = "mixed" /\ j % 2 = 1)
    THEN <<rv[2], rv[1]>> ELSE rv

Shifts == {5 * k : k \in 0..MaxShift}

\* the diagram d translated by shift, as float coordinates (fixed point)
Place(d, shift, mode) ==
    LET Coord(p) == [a \in DOMAIN p |-> (p[a] + shift[a]) * Scale]
    IN  [d EXCEPT
           !.points = [j \in DOMAIN d.points |-> Coord(d.points[j])],
           !.vertices = [j \in DOMAIN d.vertices |-> Coord(d.vertices[j])],
           !.ridge_vertices = [j \in DOMAIN d.ridge_vertices |->
                                  Reslot(d.ridge_vertices[j], j, mode)]]

Placements(S) ==
    {Place(d, <<sx, sy, 0>>, mode) :
        d \in S, sx \in Shifts, sy \in Shifts, mode \in SlotModes}

\* the Diagram Provider contract: every index is in range, a ridge joins two
\* distinct points and has at most one vertex at infinity, no two points
\* coincide, and a point whose region is unbounded has a ridge
ProviderContract(d) ==
    LET N == Len(d.points)
        V == Len(d.vertices)
        Unbounded(p) == \E m \in DOMAIN d.regions[d.point_region[p] + 1] :
                            d.regions[d.point_region[p] + 1][m] < 0
    IN  /\ d.dim = 2
        /\ Len(d.point_region) = N
        /\ Len(d.ridge_points) = Len(d.ridge_vertices)
        /\ \A p \in 1..N : d.point_region[p] \in 0..(Len(d.regions) - 1)
        /\ \A r \in DOMAIN d.regions : \A m \in DOMAIN d.regions[r] :
              d.regions[r][m] \in -1..(V - 1)
        /\ \A j \in DOMAIN d.ridge_points :
              /\ d.ridge_points[j][1] \in 0..(N - 1)
              /\ d.ridge_points[j][2] \in 0..(N - 1)
              /\ d.ridge_points[j][1] # d.ridge_points[j][2]
              /\ d.ridge_vertices[j][1] \in -1..(V - 1)
              /\ d.ridge_vertices[j][2] \in -1..(V - 1)
              /\ d.ridge_vertices[j][1] >= 0 \/ d.ridge_vertices[j][2] >= 0
        /\ \A p, q \in 1..N : p # q => d.points[p] # d.points[q]
        /\ \A p \in 1..N : Unbounded(p) =>
              \E j \in DOMAIN d.ridge_points :
                  (p - 1) \in {d.ridge_points[j][1], d.ridge_points[j][2]}

\* diagrams of at least three points in general position
Diagrams ==
    {d \in Placements({Grid3, Triangle, Square, Centred}) : ProviderContract(d)}

\* inputs for which Qhull builds no diagram
Degenerate == Placements({SinglePoint, Spatial})

RadiusArgs == {None} \cup {<<k * (Scale \div 2)>> : k \in 1..MaxRadius}

-----------------------------------------------------------------------------
(* voronoi_finite_polygons_2d, expression by expression *)

NumPoints == Len(vor.points)

NumRidges == Len(vor.ridge_points)

\* radius = vor.points.ptp().max()*2
DefaultRadius(d) == Ptp(d.points) * 2

\* faulty variant of RawRegion: the point id is taken for the region index
RawRegionByPointId(d, p) == PyAt(d.regions, p)

\* vor.regions[region], for region = vor.point_region[p]
RawRegion(d, p) == PyAt(d.regions, PyAt(d.point_region, p))

\* faulty variant of AllFinite: vertex 0 is taken for a vertex at infinity
AllPositive(vertices) == \A m \in DOMAIN vertices : vertices[m] > 0

\* all(v >= 0 for v in vertices)
AllFinite(vertices) == \A m \in DOMAIN vertices : vertices[m] >= 0

\* faulty variant of FiniteIndices: no index is dropped
KeepAllIndices(vertices) == vertices

\* [v for v in vertices if v >= 0]
FiniteIndices(vertices) == SelectSeq(vertices, LAMBDA v : v >= 0)

\* faulty variant of OrientRidge: the slots are left as stored
KeepRidge(rd) == rd

\* if v2 < 0: v1, v2 = v2, v1      (a ridge is <<p2, v1, v2>>)
OrientRidge(rd) == IF rd[3] < 0 THEN <<rd[1], rd[3], rd[2]>> ELSE rd

\* t = vor.points[p2] - vor.points[p1]; t /= np.linalg.norm(t)
Tangent(d, p, p2) ==
    LET t == VSub(PyAt(d.points, p2), PyAt(d.points, p))
    IN  <<Div(t[1] * Scale, Norm(t)), Div(t[2] * Scale, Norm(t))>>

\* faulty variant of Normal: the tangent is not turned
NormalAsTangent(t) == t

\* n = np.array([-t[1], t[0]])
Normal(t) == <<-t[2], t[1]>>

\* midpoint = vor.points[[p1, p2]].mean(axis=0)
Midpoint(d, p, p2) == MeanAxis0(<<PyAt(d.points, p), PyAt(d.points, p2)>>)

\* faulty variant of Direction: the normal is not oriented away from center
DirectionUnsigned(d, c, p, p2) == Normal(Tangent(d, p, p2))

\* direction = np.sign(np.dot(midpoint - center, n)) * n
Direction(d, c, p, p2) ==
    LET n == Normal(Tangent(d, p, p2))
        s == Sign(Dot(VSub(Midpoint(d, p, p2), c), n))
    IN  <<s * n[1], s * n[2]>>

\* faulty variant of FarPoint: the direction is not scaled by the radius
FarPointUnitOffset(d, c, r, p, p2, v2) ==
    VAdd(PyAt(d.vertices, v2), Direction(d, c, p, p2))

\* far_point = vor.vertices[v2] + direction * radius
FarPoint(d, c, r, p, p2, v2) ==
    LET dir == Direction(d, c, p, p2)
    IN  VAdd(PyAt(d.vertices, v2), <<Mul(dir[1], r), Mul(dir[2], r)>>)

\* angles = np.arctan2(vs[:,1] - c[1], vs[:,0] - c[0]), for c = vs.mean(axis=0):
\* an angle is kept as the vector it is the argument of
Angles(vs) == [m \in DOMAIN vs |-> VSub(vs[m], MeanAxis0(vs))]

\* vs = np.asarray([new_vertices[v] for v in new_region])
\* new_region = np.array(new_region)[np.argsort(angles)]
SortedRegion(region, vertices) ==
    LET vs == [m \in DOMAIN region |-> PyAt(vertices, region[m])]
        order == ArgSort(Angles(vs))
    IN  [m \in DOMAIN region |-> PyAt(region, order[m])]

-----------------------------------------------------------------------------
(* The call, statement by statement *)

TypeOK ==
    /\ pc \in {"start", "ridges", "points", "ridge", "sort", "done", "raised"}
    /\ fault \in {"none", "ValueError", "KeyError", "IndexError"}
    /\ radius_arg \in RadiusArgs
    /\ p1 \in 0..NumPoints
    /\ ridge_i \in 0..NumRidges

Start(inputs) ==
    /\ vor \in inputs
    /\ radius_arg \in RadiusArgs
    /\ pc = "start"
    /\ fault = "none"
    /\ new_regions = <<>>
    /\ new_vertices = <<>>
    /\ center = <<0, 0>>
    /\ radius = 0
    /\ all_ridges = <<>>
    /\ ridge_i = 0
    /\ p1 = 0
    /\ new_region = <<>>
    /\ ridge_k = 0

Init == Start(Diagrams)

InitAny == Start(Diagrams \cup Degenerate)

\* lines 35-46: the dimension check, new_vertices, center, radius
Setup ==
    /\ pc = "start"
    /\ IF vor.dim # 2
       THEN /\ pc' = "raised"
            /\ fault' = "ValueError"
            /\ UNCHANGED <<new_vertices, center, radius>>
       ELSE /\ new_vertices' = vor.vertices
            /\ center' = MeanAxis0(vor.points)
            /\ radius' = IF radius_arg = None THEN DefaultRadius(vor)
                         ELSE radius_arg[1]
            /\ pc' = IF NumRidges = 0 THEN "points" ELSE "ridges"
            /\ UNCHANGED fault
    /\ UNCHANGED <<vor, radius_arg, new_regions, all_ridges, ridge_i, p1,
                   new_region, ridge_k>>

\* lines 47-49: one ridge enters the map, under both of its points
AddRidge ==
    /\ pc = "ridges"
    /\ LET pp == vor.ridge_points[ridge_i + 1]
           vv == vor.ridge_vertices[ridge_i + 1]
           under1 == SetDefaultAppend(all_ridges, pp[1], <<pp[2], vv[1], vv[2]>>)
       IN  all_ridges' = SetDefaultAppend(under1, pp[2], <<pp[1], vv[1], vv[2]>>)
    /\ ridge_i' = ridge_i + 1
    /\ pc' = IF ridge_i + 1 = NumRidges THEN "points" ELSE "ridges"
    /\ UNCHANGED <<vor, radius_arg, fault, new_regions, new_vertices, center,
                   radius, p1, new_region, ridge_k>>

\* lines 52-62: the next point; a finite region is appended as it is, an
\* unbounded one starts its reconstruction
Region ==
    /\ pc = "points"
    /\ p1 < NumPoints
    /\ IF ~PyIndexOK(vor.regions, PyAt(vor.point_region, p1))
       THEN /\ pc' = "raised"
            /\ fault' = "IndexError"
            /\ UNCHANGED <<new_regions, p1, new_region, ridge_k>>
       ELSE LET vertices == RawRegion(vor, p1)
            IN  IF AllFinite(vertices)
                THEN /\ new_regions' = Append(new_regions, vertices)
                     /\ p1' = p1 + 1
                     /\ UNCHANGED <<pc, fault, new_region, ridge_k>>
                ELSE IF p1 \notin DOMAIN all_ridges
                THEN /\ pc' = "raised"
                     /\ fault' = "KeyError"
                     /\ UNCHANGED <<new_regions, p1, new_region, ridge_k>>
                ELSE /\ new_region' = FiniteIndices(vertices)
                     /\ ridge_k' = 0
                     /\ pc' = "ridge"
                     /\ UNCHANGED <<fault, new_regions, p1>>
    /\ UNCHANGED <<vor, radius_arg, new_vertices, center, radius, all_ridges,
                   ridge_i>>

\* lines 64-82: the next ridge of p1; a ridge with a vertex at infinity gets
\* its far point, appended to new_vertices and to the region
Ridge ==
    /\ pc = "ridge"
    /\ LET rd == OrientRidge(all_ridges[p1][ridge_k + 1])
           p2 == rd[1]
           v1 == rd[2]
           v2 == rd[3]
           last == ridge_k + 1 = Len(all_ridges[p1])
       IN  IF v1 >= 0
           THEN /\ pc' = IF last THEN "sort" ELSE "ridge"
                /\ ridge_k' = ridge_k + 1
                /\ UNCHANGED <<fault, new_region, new_vertices>>
           ELSE IF ~PyIndexOK(vor.vertices, v2)
           THEN /\ pc' = "raised"
                /\ fault' = "IndexError"
                /\ UNCHANGED <<ridge_k, new_region, new_vertices>>
           ELSE /\ new_region' = Append(new_region, Len(new_vertices))
                /\ new_vertices' =
                      Append(new_vertices,
                             FarPoint(vor, center, radius, p1, p2, v2))
                /\ pc' = IF last THEN "sort" ELSE "ridge"
                /\ ridge_k' = ridge_k + 1
                /\ UNCHANGED fault
    /\ UNCHANGED <<vor, radius_arg, new_regions, center, radius, all_ridges,
                   ridge_i, p1>>

\* lines 85-91: the region is sorted by angle about the mean of its vertices
\* and appended
Sort ==
    /\ pc = "sort"
    /\ new_regions' = Append(new_regions, SortedRegion(new_region, new_vertices))
    /\ p1' = p1 + 1
    /\ pc' = "points"
    /\ UNCHANGED <<vor, radius_arg, fault, new_vertices, center, radius,
                   all_ridges, ridge_i, new_region, ridge_k>>

\* line 93: return new_regions, np.asarray(new_vertices)
Return ==
    /\ pc = "points"
    /\ p1 = NumPoints
    /\ pc' = "done"
    /\ UNCHANGED <<vor, radius_arg, fault, new_regions, new_vertices, center,
                   radius, all_ridges, ridge_i, p1, new_region, ridge_k>>

Next == Setup \/ AddRidge \/ Region \/ Ridge \/ Sort \/ Return

Spec == Init /\ [][Next]_vars

SpecAny == InitAny /\ [][Next]_vars

-----------------------------------------------------------------------------
(* Vocabulary of the properties *)

\* the number of vertices of the input diagram
V0 == Len(vor.vertices)

\* the raw region of point id i
Raw(i) == vor.regions[vor.point_region[i + 1] + 1]

HasSentinel(seq) == \E m \in DOMAIN seq : seq[m] < 0

Elems(seq) == {seq[m] : m \in DOMAIN seq}

\* the point ids whose region has been output, and those that were rebuilt
Completed == 0..(Len(new_regions) - 1)

Rebuilt == {i \in Completed : HasSentinel(Raw(i))}

\* exactly one of the two vertices is the vertex at infinity
OneSentinel(v1, v2) == (v1 < 0) # (v2 < 0)

\* the ridges of the diagram at point id i that have one vertex at infinity
UnboundedRidges(i) ==
    {j \in DOMAIN vor.ridge_points :
        /\ i \in {vor.ridge_points[j][1], vor.ridge_points[j][2]}
        /\ OneSentinel(vor.ridge_vertices[j][1], vor.ridge_vertices[j][2])}

Coord(v) == new_vertices[v + 1]

RECURSIVE ShoelaceFrom(_, _)
ShoelaceFrom(region, m) ==
    IF m > Len(region) THEN 0
    ELSE Cross(Coord(region[m]), Coord(region[(m % Len(region)) + 1]))
         + ShoelaceFrom(region, m + 1)

\* twice the signed area of the polygon, by the shoelace formula
Shoelace(region) == ShoelaceFrom(region, 1)

\* the squared distance of two points
Dist2(a, b) == Dot(VSub(a, b), VSub(a, b))

\* the ridge the loop of lines 64-82 has just gone through, when it had a
\* vertex at infinity: its far point is the last entry of new_vertices
LastRidge == all_ridges[p1][ridge_k]

JustSynthesized ==
    /\ pc \in {"ridge", "sort"}
    /\ ridge_k > 0
    /\ OneSentinel(LastRidge[2], LastRidge[3])

LastBase ==
    vor.vertices[(IF LastRidge[2] < 0 THEN LastRidge[3] ELSE LastRidge[2]) + 1]

LastFar == new_vertices[Len(new_vertices)]

\* the radii a second run may be given
OtherRadii ==
    {k * (Scale \div 2) : k \in 1..MaxRadius} \cup {DefaultRadius(vor)}

\* the far point the code computes for the last ridge under radius r
LastFarUnder(r) ==
    FarPoint(vor, center, r, p1, LastRidge[1],
             IF LastRidge[2] < 0 THEN LastRidge[3] ELSE LastRidge[2])

\* the index appended for the k-th ridge of point id i: far points are
\* appended in the order of the points and, within a point, of its ridges
FarIndex(i, k) ==
    V0 + Cardinality(
        {ik \in {<<i2, k2>> : i2 \in DOMAIN all_ridges, k2 \in 1..NumRidges} :
            /\ ik[2] <= Len(all_ridges[ik[1]])
            /\ HasSentinel(Raw(ik[1]))
            /\ OneSentinel(all_ridges[ik[1]][ik[2]][2], all_ridges[ik[1]][ik[2]][3])
            /\ ik[1] < i \/ (ik[1] = i /\ ik[2] < k)})

\* how many output regions hold index v, counted with repetition
Occurrences(v) ==
    Cardinality({rm \in {<<r, m>> : r \in DOMAIN new_regions, m \in 1..(V0 + NumRidges)} :
                    /\ rm[2] <= Len(new_regions[rm[1]])
                    /\ new_regions[rm[1]][rm[2]] = v})

\* the span of the points along one axis
AxisSpan(a) ==
    LET xs == {vor.points[j][a] : j \in DOMAIN vor.points}
    IN  SetMax(xs) - SetMin(xs)

-----------------------------------------------------------------------------
(* Properties *)

\* C1: every vertex index of every output region is non-negative (never the
\* vertex at infinity, -1) and an index into the output vertex list.
C1_IndicesValid ==
    \A r \in DOMAIN new_regions : \A m \in DOMAIN new_regions[r] :
        /\ new_regions[r][m] >= 0
        /\ new_regions[r][m] < Len(new_vertices)

\* C1, its case: the call has returned a region rebuilt from a raw region
\* that held -1, with a far vertex in it.
C1_Witness ==
    /\ pc = "done"
    /\ \E i \in Rebuilt : \E v \in Elems(new_regions[i + 1]) : v >= V0

\* C2: the call never faults, there is one output region per point handled,
\* N of them at the return, and the i-th one is built from the raw region of
\* point id i: its indices of input vertices are the finite ones of
\* regions[point_region[i]].
C2_OneRegionPerPoint ==
    /\ pc # "raised" /\ fault = "none"
    /\ pc \in {"points", "done"} => Len(new_regions) = p1
    /\ pc = "done" => Len(new_regions) = NumPoints
    /\ \A i \in Completed :
          {v \in Elems(new_regions[i + 1]) : v < V0}
              = {v \in Elems(Raw(i)) : v >= 0}

\* C2, its case: the call has returned for a diagram whose point_region is
\* not the identity.
C2_Witness ==
    /\ pc = "done"
    /\ NumPoints >= 3
    /\ \E i \in Completed : vor.point_region[i + 1] # i

\* C3: a raw region without -1 is output as the same index sequence, and its
\* indices name the same coordinates in the output vertex list as in the input.
C3_FinitePassThrough ==
    \A i \in Completed :
        ~HasSentinel(Raw(i)) =>
            /\ new_regions[i + 1] = Raw(i)
            /\ \A v \in Elems(Raw(i)) : Coord(v) = vor.vertices[v + 1]

\* C3, its case: a finite, non-empty raw region has been output after far
\* vertices were appended to the vertex list.
C3_Witness ==
    /\ pc = "done"
    /\ Len(new_vertices) > V0
    /\ \E i \in Completed : ~HasSentinel(Raw(i)) /\ Raw(i) # <<>>

\* C4 as claimed: every output polygon, passed through or rebuilt, has a
\* strictly positive shoelace area.
C4_AllCounterclockwise ==
    \A r \in DOMAIN new_regions : Shoelace(new_regions[r]) > 0

\* C4 as amended: every rebuilt polygon has a strictly positive shoelace
\* area (for a radius > 0); a region passed through keeps the orientation
\* the diagram gave it.
C4_RebuiltCounterclockwise ==
    \A i \in Rebuilt : Shoelace(new_regions[i + 1]) > 0

\* C4, its case: a rebuilt region of four vertices, two of them far
\* vertices, has been output.
C4_Witness ==
    /\ pc = "done"
    /\ \E i \in Rebuilt :
          /\ Len(new_regions[i + 1]) = 4
          /\ Cardinality({v \in Elems(new_regions[i + 1]) : v >= V0}) = 2

\* original vertices keep their place and coordinates, and a finite region
\* its indices, whatever the radius
RadiusLeavesInputAlone ==
    /\ pc \notin {"start", "raised"} =>
          \A v \in 0..(V0 - 1) : Coord(v) = vor.vertices[v + 1]
    /\ \A i \in Completed : ~HasSentinel(Raw(i)) => new_regions[i + 1] = Raw(i)

\* C5 as claimed: for radii r1 < r2, original vertices and finite regions
\* are the same in both runs, and the far vertex of the r2 run is strictly
\* farther from the centroid of the points than that of the r1 run.
C5_FartherFromCentroid ==
    /\ RadiusLeavesInputAlone
    /\ JustSynthesized =>
          \A r2 \in OtherRadii :
              r2 > radius =>
                  Dist2(LastFarUnder(r2), center) > Dist2(LastFar, center)

\* C5 as amended: for radii 0 < r1 < r2, original vertices and finite
\* regions are the same in both runs, and the far vertex of the r2 run is
\* strictly farther from the original vertex it is offset from than that of
\* the r1 run, in the same direction.
C5_FartherFromVertex ==
    /\ RadiusLeavesInputAlone
    /\ JustSynthesized =>
          \A r2 \in OtherRadii :
              r2 > radius =>
                  /\ Dist2(LastFarUnder(r2), LastBase) > Dist2(LastFar, LastBase)
                  /\ Cross(VSub(LastFarUnder(r2), LastBase),
                           VSub(LastFar, LastBase)) = 0
                  /\ Dot(VSub(LastFarUnder(r2), LastBase),
                         VSub(LastFar, LastBase)) > 0

\* C5, its case: a far vertex has been appended under a radius that is not
\* the largest on offer, in a diagram that also has a finite region.
C5_Witness ==
    /\ JustSynthesized
    /\ \E r2 \in OtherRadii : r2 > radius
    /\ \E i \in 0..(NumPoints - 1) : ~HasSentinel(Raw(i))

\* C6 as claimed: without a radius argument, the radius is twice the larger
\* of the two per-axis spans of the points.
C6_DefaultRadiusIsAxisSpan ==
    (pc \notin {"start", "raised"} /\ radius_arg = None) =>
        radius = 2 * SetMax({AxisSpan(1), AxisSpan(2)})

\* C7 as claimed: for a single point (no Voronoi vertex, an empty raw
\* region) the call fails or returns one non-empty region.
C7_SinglePointNotEmpty ==
    (pc = "done" /\ NumPoints = 1 /\ V0 = 0 /\ Raw(0) = <<>>) =>
        (Len(new_regions) = 1 /\ new_regions[1] # <<>>)

\* C8: the direction used for a far vertex has a strictly positive dot
\* product with midpoint(p1, p2) - centroid, and the far vertex is not the
\* original vertex it is offset from.
C8_DirectionOutward ==
    JustSynthesized =>
        /\ Dot(Direction(vor, center, p1, LastRidge[1]),
               VSub(Midpoint(vor, p1, LastRidge[1]), center)) > 0
        /\ Dot(VSub(LastFar, LastBase),
               VSub(Midpoint(vor, p1, LastRidge[1]), center)) > 0
        /\ LastFar # LastBase

\* C8, its case: a far vertex has just been appended for a ridge whose
\* normal had to be flipped to point away from the centroid.
C8_Witness ==
    /\ JustSynthesized
    /\ Dot(Normal(Tangent(vor, p1, LastRidge[1])),
           VSub(Midpoint(vor, p1, LastRidge[1]), center)) < 0

\* C9: a rebuilt region holds the finite indices of its raw region and one
\* new index per ridge of its point that has exactly one vertex at infinity,
\* in whichever slot; the new indices are fresh entries of the vertex list,
\* and a ridge with two finite vertices adds no index and no entry.
C9_RebuiltIndices ==
    /\ \A i \in Rebuilt :
          LET out == new_regions[i + 1]
              added == {v \in Elems(out) : v >= V0}
          IN  /\ {v \in Elems(out) : v < V0} = {v \in Elems(Raw(i)) : v >= 0}
              /\ Cardinality(added) = Cardinality(UnboundedRidges(i))
              /\ Len(out) = Len(SelectSeq(Raw(i), LAMBDA v : v >= 0))
                              + Cardinality(UnboundedRidges(i))
              /\ \A v \in added : v < Len(new_vertices) /\ Occurrences(v) = 1
    /\ pc \in {"points", "done"} =>
          Len(new_vertices) = V0 +
              Cardinality({ij \in Rebuilt \X DOMAIN vor.ridge_points :
                              ij[2] \in UnboundedRidges(ij[1])})

\* C9, its case: a region has been rebuilt at a point that has a ridge with
\* -1 in its first slot, one with -1 in its second slot and one with two
\* finite vertices.
C9_Witness ==
    /\ pc = "done"
    /\ \E i \in Rebuilt :
          /\ \E k \in DOMAIN all_ridges[i] :
                all_ridges[i][k][2] < 0 /\ all_ridges[i][k][3] >= 0
          /\ \E k \in DOMAIN all_ridges[i] :
                all_ridges[i][k][2] >= 0 /\ all_ridges[i][k][3] < 0
          /\ \E k \in DOMAIN all_ridges[i] :
                all_ridges[i][k][2] >= 0 /\ all_ridges[i][k][3] >= 0

\* C10: for an unbounded ridge between p and q, both with unbounded regions,
\* the far vertex appended for p and the one appended for q are two entries
\* of the vertex list, each in exactly one output region (that of its
\* point), with the same coordinates.
C10_SharedFarVertex ==
    pc = "done" =>
        \A j \in DOMAIN vor.ridge_points :
            LET p == vor.ridge_points[j][1]
                q == vor.ridge_points[j][2]
                kp == CHOOSE k \in DOMAIN all_ridges[p] : all_ridges[p][k][1] = q
                kq == CHOOSE k \in DOMAIN all_ridges[q] : all_ridges[q][k][1] = p
                a == FarIndex(p, kp)
                b == FarIndex(q, kq)
            IN  (/\ OneSentinel(vor.ridge_vertices[j][1], vor.ridge_vertices[j][2])
                 /\ HasSentinel(Raw(p)) /\ HasSentinel(Raw(q))) =>
                    /\ a # b
                    /\ a < Len(new_vertices) /\ b < Len(new_vertices)
                    /\ a \in Elems(new_regions[p + 1])
                    /\ b \in Elems(new_regions[q + 1])
                    /\ Occurrences(a) = 1 /\ Occurrences(b) = 1
                    /\ Coord(a) = Coord(b)

\* C10, its case: the call has returned for a diagram with an unbounded
\* ridge whose far vertex is not the original vertex.
C10_Witness ==
    /\ pc = "done"
    /\ \E j \in DOMAIN vor.ridge_points :
          /\ OneSentinel(vor.ridge_vertices[j][1], vor.ridge_vertices[j][2])
          /\ HasSentinel(Raw(vor.ridge_points[j][1]))
          /\ HasSentinel(Raw(vor.ridge_points[j][2]))
          /\ Coord(FarIndex(vor.ridge_points[j][1],
                            CHOOSE k \in DOMAIN all_ridges[vor.ridge_points[j][1]] :
                                all_ridges[vor.ridge_points[j][1]][k][1]
                                    = vor.ridge_points[j][2]))
                \notin Elems(vor.vertices)

=============================================================================
